---- MODULE Spec2Model ----
(***************************************************************************)
(* Model of packages/block-editor/src/hooks/duotone.js: the duotone preset *)
(* resolvers (getColorsFromDuotonePreset, getDuotonePresetFromColors), the *)
(* palette assembly (useMultiOriginPresets), the DuotonePanel control with *)
(* its onChange handler, and BlockDuotoneStyles with its scoped-selector   *)
(* computation.                                                            *)
(*                                                                         *)
(* Four specifications share the definitions of the module:                *)
(*   SpecResolver   the two resolver functions applied to drawn inputs     *)
(*   SpecOrigins    the palette assembled from the three preset origins    *)
(*   SpecSelectors  the scoped-selector computation of BlockDuotoneStyles  *)
(*   Spec           a block's style attribute under the duotone control    *)
(***************************************************************************)
EXTENDS Naturals, Sequences, FiniteSets, TLC

VARIABLES
    \* SpecResolver, SpecOrigins: one call of a resolver function
    rPalette,       \* the duotonePalette argument
    rArg,           \* the first argument (duotone / colors)
    rFn,            \* which function was called ("none" before the call)
    rResult,        \* what the call returned
    \* SpecSelectors: BlockDuotoneStyles' selector computation
    id,                         \* props.id, a string (sequence of characters)
    duotoneSupportSelectors,    \* getBlockCSSSelector(...), a string
    selectorsScoped,            \* the array built by the nested forEach
    selectorsGroup,             \* selectorsScoped.join( ',' )
    selPc,                      \* "start" | "done"
    \* Spec: the block editor
    settings,       \* what useSetting returns for the paths duotone.js reads
    style,          \* attributes.style of the block
    panel,          \* what DuotonePanel rendered last
    styles,         \* what withDuotoneStyles / BlockDuotoneStyles rendered last
    lastOnChange,   \* the argument of the last onChange call
    setAttributesCalls  \* the setAttributes calls the last handler made

resolverVars == <<rPalette, rArg, rFn, rResult>>
selectorVars == <<id, duotoneSupportSelectors, selectorsScoped, selectorsGroup, selPc>>
editorVars == <<settings, style, panel, styles, lastOnChange, setAttributesCalls>>
vars == <<rPalette, rArg, rFn, rResult, id, duotoneSupportSelectors, selectorsScoped, selectorsGroup, selPc, settings, style, panel, styles, lastOnChange, setAttributesCalls>>

----------------------------------------------------------------------------
(* Bounds *)

\* longest colors list of a preset; arrays given to the functions are one longer
MaxColors == 2
\* longest palette given to the resolver functions
MaxPalette == 2
\* most presets in one origin (custom, theme, default) of the settings
MaxTier == 1
\* longest id and longest duotoneSupportSelectors string, in characters
MaxStrLen == 3

Slugs == {"s1", "s2"}
Colors == {"c0", "c1"}

SeqsUpTo(S, n) == UNION {[1..k -> S] : k \in 0..n}

----------------------------------------------------------------------------
(* JavaScript values: undefined, null, strings, numbers, arrays of strings *)

Undefined == [t |-> "undefined", s |-> "", a |-> <<>>]
Null == [t |-> "null", s |-> "", a |-> <<>>]
Str(x) == [t |-> "string", s |-> x, a |-> <<>>]
Num(x) == [t |-> "number", s |-> x, a |-> <<>>]
Arr(q) == [t |-> "array", s |-> "", a |-> q]
\* the outcome of a call that raised instead of returning
TypeError == [t |-> "throws", s |-> "TypeError", a |-> <<>>]

\* ToBoolean
Truthy(v) ==
    CASE v.t = "undefined" -> FALSE
      [] v.t = "null" -> FALSE
      [] v.t = "string" -> v.s # ""
      [] v.t = "number" -> v.s # "0"
      [] OTHER -> TRUE

IsArray(v) == v.t = "array"

\* v[ index ] for a zero-based index; indexing a nullish value raises, and
\* an index outside an array (or a character of a string, which is no color
\* of the model) compares unequal to every color
ElementAt(v, index) ==
    CASE v.t \in {"undefined", "null"} -> TypeError
      [] v.t = "array" /\ index < Len(v.a) -> Str(v.a[index + 1])
      [] OTHER -> Undefined

\* a preset of the palette; colors is Undefined when the preset has no colors list
Preset(slug, colors) == [slug |-> slug, colors |-> colors]

\* a palette argument: an array of presets, or nullish
PaletteOf(items) == [t |-> "array", items |-> items]
NullishPalette == [t |-> "undefined", items |-> <<>>]

\* `var:preset|duotone|${ slug }`
PresetReference(slug) == "var:preset|duotone|" \o slug

----------------------------------------------------------------------------
(* The resolver functions *)

\* the indices of the palette's presets, none for a nullish palette
IndicesOf(palette) == IF palette.t = "array" THEN 1..Len(palette.items) ELSE {}

\* duotonePalette?.find( ... ), given the indices of the presets that pass the
\* callback: the first of them in palette order, nothing when there is none
FindFirst(palette, passing) ==
    IF passing = {}
    THEN [found |-> FALSE, preset |-> Preset("", Undefined)]
    ELSE [found |-> TRUE,
          preset |-> palette.items[CHOOSE i \in passing : \A j \in passing : i <= j]]

\* a find that keeps the last preset that passes instead of the first
FindLast(palette, passing) ==
    IF passing = {}
    THEN [found |-> FALSE, preset |-> Preset("", Undefined)]
    ELSE [found |-> TRUE,
          preset |-> palette.items[CHOOSE i \in passing : \A j \in passing : i >= j]]

\* getColorsFromDuotonePreset keeping the last preset with the slug
getColorsFromDuotonePreset_LastMatch(duotone, duotonePalette) ==
    IF ~Truthy(duotone)
    THEN Undefined
    ELSE LET slugMatches == {i \in IndicesOf(duotonePalette) :
                    duotone = Str(PresetReference(duotonePalette.items[i].slug))}
             r == FindLast(duotonePalette, slugMatches)
         IN  IF r.found THEN r.preset.colors ELSE Undefined

getColorsFromDuotonePreset(duotone, duotonePalette) ==
    IF ~Truthy(duotone)
    THEN Undefined
    ELSE LET slugMatches == {i \in IndicesOf(duotonePalette) :
                    duotone = Str(PresetReference(duotonePalette.items[i].slug))}
             r == FindFirst(duotonePalette, slugMatches)
         IN  IF r.found THEN r.preset.colors ELSE Undefined

\* duotonePreset?.colors?.every( ( val, index ) => val === colors[ index ] )
ColorsEvery(duotonePreset, colors) ==
    /\ duotonePreset.colors.t = "array"
    /\ \A k \in 1..Len(duotonePreset.colors.a) :
          Str(duotonePreset.colors.a[k]) = ElementAt(colors, k - 1)

\* getDuotonePresetFromColors keeping the last matching preset
getDuotonePresetFromColors_LastMatch(colors, duotonePalette) ==
    IF ~Truthy(colors) \/ ~IsArray(colors)
    THEN Undefined
    ELSE LET matches == {i \in IndicesOf(duotonePalette) :
                    ColorsEvery(duotonePalette.items[i], colors)}
             r == FindLast(duotonePalette, matches)
         IN  IF r.found THEN Str(PresetReference(r.preset.slug)) ELSE Undefined

\* getDuotonePresetFromColors without the Array.isArray guard
getDuotonePresetFromColors_NoArrayGuard(colors, duotonePalette) ==
    IF ~Truthy(colors)
    THEN Undefined
    ELSE LET matches == {i \in IndicesOf(duotonePalette) :
                    ColorsEvery(duotonePalette.items[i], colors)}
             r == FindFirst(duotonePalette, matches)
         IN  IF r.found THEN Str(PresetReference(r.preset.slug)) ELSE Undefined

\* getDuotonePresetFromColors comparing the lengths as well
getDuotonePresetFromColors_SameLength(colors, duotonePalette) ==
    IF ~Truthy(colors) \/ ~IsArray(colors)
    THEN Undefined
    ELSE LET matches == {i \in IndicesOf(duotonePalette) :
                    /\ ColorsEvery(duotonePalette.items[i], colors)
                    /\ Len(duotonePalette.items[i].colors.a) = Len(colors.a)}
             r == FindFirst(duotonePalette, matches)
         IN  IF r.found THEN Str(PresetReference(r.preset.slug)) ELSE Undefined

getDuotonePresetFromColors(colors, duotonePalette) ==
    IF ~Truthy(colors) \/ ~IsArray(colors)
    THEN Undefined
    ELSE LET matches == {i \in IndicesOf(duotonePalette) :
                    ColorsEvery(duotonePalette.items[i], colors)}
             r == FindFirst(duotonePalette, matches)
         IN  IF r.found THEN Str(PresetReference(r.preset.slug)) ELSE Undefined

----------------------------------------------------------------------------
(* The block's style attribute: the keys duotone.js reads and writes, and one *)
(* sibling key at each level ("" stands for an absent key)                    *)

ColorUndefined == [defined |-> FALSE, text |-> "", hasDuotone |-> FALSE, duotone |-> Undefined]
StyleUndefined == [defined |-> FALSE, spacing |-> "", color |-> ColorUndefined]

\* style?.color?.duotone
DuotoneStyleOf(st) ==
    IF st.defined /\ st.color.defined THEN st.color.duotone ELSE Undefined

\* useSetting( ... ) || EMPTY_ARRAY
OrEmptyArray(setting) == IF setting.t = "array" THEN setting ELSE PaletteOf(<<>>)

\* the palette with the theme presets ahead of the custom ones
useMultiOriginPresets_ThemeFirst(s) ==
    PaletteOf(OrEmptyArray(s.theme).items
                \o OrEmptyArray(s.custom).items
                \o (IF ~s.defaultDuotone THEN <<>> ELSE OrEmptyArray(s.default).items))

\* useMultiOriginPresets( { presetSetting: 'color.duotone',
\*                          defaultSetting: 'color.defaultDuotone' } )
useMultiOriginPresets(s) ==
    LET disableDefault == ~s.defaultDuotone
        userPresets == OrEmptyArray(s.custom)
        themePresets == OrEmptyArray(s.theme)
        defaultPresets == OrEmptyArray(s.default)
    IN  PaletteOf(userPresets.items
                    \o themePresets.items
                    \o (IF disableDefault THEN <<>> ELSE defaultPresets.items))

\* what DuotonePanel renders: nothing, or the DuotoneControl with its palette
\* and value; resolveCalls are the arguments it gave getColorsFromDuotonePreset
DuotonePanel(st, s) ==
    LET duotoneStyle == DuotoneStyleOf(st)
        duotonePalette == useMultiOriginPresets(s)
    IN  IF Len(duotonePalette.items) = 0 /\ s.disableCustomDuotone
        THEN [rendered |-> FALSE, duotonePalette |-> duotonePalette,
              value |-> Undefined, resolveCalls |-> {}]
        ELSE IF ~IsArray(duotoneStyle)
        THEN [rendered |-> TRUE, duotonePalette |-> duotonePalette,
              value |-> getColorsFromDuotonePreset(duotoneStyle, duotonePalette),
              resolveCalls |-> {duotoneStyle}]
        ELSE [rendered |-> TRUE, duotonePalette |-> duotonePalette,
              value |-> duotoneStyle, resolveCalls |-> {}]

\* the onChange handler building the style without the spread of the old one
NewStyle_DropsOtherKeys(st, newDuotone, duotonePalette) ==
    LET maybePreset == getDuotonePresetFromColors(newDuotone, duotonePalette)
    IN  [defined |-> TRUE,
         spacing |-> "",
         color |-> [defined |-> TRUE,
                    text |-> "",
                    hasDuotone |-> TRUE,
                    duotone |-> IF maybePreset \notin {Undefined, Null}
                                THEN maybePreset ELSE newDuotone]]

\* newStyle of the onChange handler:
\* { ...style, color: { ...style?.color, duotone: maybePreset ?? newDuotone } }
NewStyle(st, newDuotone, duotonePalette) ==
    LET maybePreset == getDuotonePresetFromColors(newDuotone, duotonePalette)
    IN  [defined |-> TRUE,
         spacing |-> IF st.defined THEN st.spacing ELSE "",
         color |-> [defined |-> TRUE,
                    text |-> IF st.defined /\ st.color.defined
                             THEN st.color.text ELSE "",
                    hasDuotone |-> TRUE,
                    duotone |-> IF maybePreset \notin {Undefined, Null}
                                THEN maybePreset ELSE newDuotone]]

\* InlineDuotone: the unset stylesheet for 'unset', else the filter and its
\* stylesheet
InlineDuotone(colors) == IF colors = Str("unset") THEN "unset" ELSE "filter"

\* what withDuotoneStyles and BlockDuotoneStyles render for a block that
\* supports duotone and has an element to portal into: nothing, or
\* InlineDuotone with the colors; resolveCalls as for DuotonePanel
BlockDuotoneStyles(st, s) ==
    LET duotoneStyle == DuotoneStyleOf(st)
        duotonePalette == useMultiOriginPresets(s)
    IN  IF ~Truthy(duotoneStyle)
        THEN [rendered |-> FALSE, colors |-> Undefined, inline |-> "none",
              resolveCalls |-> {}]
        ELSE IF ~IsArray(duotoneStyle) /\ duotoneStyle # Str("unset")
        THEN LET colors == getColorsFromDuotonePreset(duotoneStyle, duotonePalette)
             IN  [rendered |-> TRUE, colors |-> colors,
                  inline |-> InlineDuotone(colors),
                  resolveCalls |-> {duotoneStyle}]
        ELSE [rendered |-> TRUE, colors |-> duotoneStyle,
              inline |-> InlineDuotone(duotoneStyle), resolveCalls |-> {}]

----------------------------------------------------------------------------
(* SpecResolver: a palette is drawn, then one call of either function acts *)
(* on it with a drawn first argument                                       *)

ColorLists == {Arr(q) : q \in SeqsUpTo(Colors, MaxColors)}
Presets == {Preset(s, c) : s \in Slugs, c \in ColorLists \cup {Undefined}}
Palettes == {PaletteOf(q) : q \in SeqsUpTo(Presets, MaxPalette)} \cup {NullishPalette}

\* what a caller may hand to either function as its first argument
ArgValues ==
    {Undefined, Null, Str(""), Str("unset"), Str("s1"), Num("0"), Num("7")}
        \cup {Str(PresetReference(s)) : s \in Slugs \cup {"s3"}}
        \cup {Arr(q) : q \in SeqsUpTo(Colors, MaxColors + 1)}

SelectorsIdle ==
    /\ id = <<>>
    /\ duotoneSupportSelectors = <<>>
    /\ selectorsScoped = <<>>
    /\ selectorsGroup = <<>>
    /\ selPc = "idle"

EditorIdle ==
    /\ settings = [custom |-> NullishPalette, theme |-> NullishPalette,
                   default |-> NullishPalette, defaultDuotone |-> FALSE,
                   disableCustomDuotone |-> TRUE]
    /\ style = StyleUndefined
    /\ panel = DuotonePanel(StyleUndefined, settings)
    /\ styles = BlockDuotoneStyles(StyleUndefined, settings)
    /\ lastOnChange = Undefined
    /\ setAttributesCalls = <<>>

ResolverIdle ==
    /\ rPalette = NullishPalette
    /\ rArg = Undefined
    /\ rFn = "idle"
    /\ rResult = Undefined

InitResolver ==
    /\ rPalette \in Palettes
    /\ rArg = Undefined
    /\ rFn = "none"
    /\ rResult = Undefined
    /\ SelectorsIdle
    /\ EditorIdle

CallGetColors ==
    /\ rFn = "none"
    /\ \E duotone \in ArgValues :
          /\ rArg' = duotone
          /\ rResult' = getColorsFromDuotonePreset(duotone, rPalette)
    /\ rFn' = "getColorsFromDuotonePreset"
    /\ UNCHANGED <<rPalette, selectorVars, editorVars>>

CallGetPreset ==
    /\ rFn = "none"
    /\ \E colors \in ArgValues :
          /\ rArg' = colors
          /\ rResult' = getDuotonePresetFromColors(colors, rPalette)
    /\ rFn' = "getDuotonePresetFromColors"
    /\ UNCHANGED <<rPalette, selectorVars, editorVars>>

NextResolver == CallGetColors \/ CallGetPreset

SpecResolver == InitResolver /\ [][NextResolver]_vars

----------------------------------------------------------------------------
(* Strings of the selector computation: sequences of characters *)

WhiteSpace == {" "}

RECURSIVE TrimStart(_)
TrimStart(s) ==
    IF s # <<>> /\ Head(s) \in WhiteSpace THEN TrimStart(Tail(s)) ELSE s

RECURSIVE TrimEnd(_)
TrimEnd(s) ==
    IF s # <<>> /\ s[Len(s)] \in WhiteSpace
    THEN TrimEnd(SubSeq(s, 1, Len(s) - 1))
    ELSE s

\* String.prototype.trim
Trim(s) == TrimEnd(TrimStart(s))

\* String.prototype.split( ',' ): the parts between the commas, in order;
\* the empty string splits into one empty part
Split(s) ==
    LET commas == {k \in 1..Len(s) : s[k] = ","}
        \* the position of the p-th comma; 0 before the first part and
        \* Len(s) + 1 after the last
        CommaAt(p) ==
            IF p = 0 THEN 0
            ELSE IF p > Cardinality(commas) THEN Len(s) + 1
            ELSE CHOOSE k \in commas : Cardinality({c \in commas : c < k}) = p - 1
    IN  [p \in 1..(Cardinality(commas) + 1) |->
            SubSeq(s, CommaAt(p - 1) + 1, CommaAt(p) - 1)]

\* Array.prototype.join( ',' )
RECURSIVE Join(_)
Join(parts) ==
    IF parts = <<>> THEN <<>>
    ELSE IF Len(parts) = 1 THEN parts[1]
    ELSE parts[1] \o <<",">> \o Join(Tail(parts))

\* '.editor-styles-wrapper '
Wrapper == <<".", "e", "d", "i", "t", "o", "r", "-", "s", "t", "y", "l", "e", "s", "-", "w", "r", "a", "p", "p", "e", "r", " ">>

----------------------------------------------------------------------------
(* BlockDuotoneStyles: the scoped selectors *)

\* the callback joining the two parts with a space, as a descendant selector
PushScoped_WithSpace(outer, inner) ==
    LET o == Trim(outer)
        n == Trim(inner)
    IN  IF o # <<>> /\ n # <<>> THEN <<Wrapper \o o \o <<" ">> \o n>>
        ELSE IF o # <<>> THEN <<Wrapper \o n>>
        ELSE IF n # <<>> THEN <<Wrapper \o o>>
        ELSE <<>>

\* the body of the inner forEach callback for one ( outer, inner ) pair:
\* the strings it pushes onto selectorsScoped
PushScoped(outer, inner) ==
    LET o == Trim(outer)
        n == Trim(inner)
    IN  IF o # <<>> /\ n # <<>> THEN <<Wrapper \o o \o n>>
        ELSE IF o # <<>> THEN <<Wrapper \o n>>
        ELSE IF n # <<>> THEN <<Wrapper \o o>>
        ELSE <<>>

\* selectors.forEach( ( inner ) => ... ) for one outer, from index j on
RECURSIVE InnerForEach(_, _, _)
InnerForEach(outer, selectors, j) ==
    IF j > Len(selectors) THEN <<>>
    ELSE PushScoped(outer, selectors[j]) \o InnerForEach(outer, selectors, j + 1)

\* scopes.forEach( ( outer ) => ... ), from index i on
RECURSIVE OuterForEach(_, _, _)
OuterForEach(scopes, selectors, i) ==
    IF i > Len(scopes) THEN <<>>
    ELSE InnerForEach(scopes[i], selectors, 1) \o OuterForEach(scopes, selectors, i + 1)

\* const scopes = ( '.' + id ).split( ',' )
ScopesOf(blockId) == Split(<<".">> \o blockId)

ScopedSelectors(blockId, supportSelectors) ==
    OuterForEach(ScopesOf(blockId), Split(supportSelectors), 1)

----------------------------------------------------------------------------
(* SpecSelectors *)

Chars == {"a", ".", " ", ","}

ExampleId1 == <<"w", "p", "-", "d", "u", "o", "t", "o", "n", "e", "-", "1">>
ExampleSelectors1 == <<"f", "i", "l", "t", "e", "r", ".", "d", "u", "o", "t", "o", "n", "e", "-", "s", "e", "l">>
ExampleId2 == <<"w", "p", "-", "d", "u", "o", "t", "o", "n", "e", "-", "1", ",", ".", "w", "p", "-", "d", "u", "o", "t", "o", "n", "e", "-", "2">>
ExampleSelectors2 == <<"a", ",", "b">>

ExampleGroup1 == <<".", "e", "d", "i", "t", "o", "r", "-", "s", "t", "y", "l", "e", "s", "-", "w", "r", "a", "p", "p", "e", "r", " ", ".", "w", "p", "-", "d", "u", "o", "t", "o", "n", "e", "-", "1", "f", "i", "l", "t", "e", "r", ".", "d", "u", "o", "t", "o", "n", "e", "-", "s", "e", "l">>
ExampleGroup2 == <<".", "e", "d", "i", "t", "o", "r", "-", "s", "t", "y", "l", "e", "s", "-", "w", "r", "a", "p", "p", "e", "r", " ", ".", "w", "p", "-", "d", "u", "o", "t", "o", "n", "e", "-", "1", "a", ",", ".", "e", "d", "i", "t", "o", "r", "-", "s", "t", "y", "l", "e", "s", "-", "w", "r", "a", "p", "p", "e", "r", " ", ".", "w", "p", "-", "d", "u", "o", "t", "o", "n", "e", "-", "1", "b", ",", ".", "e", "d", "i", "t", "o", "r", "-", "s", "t", "y", "l", "e", "s", "-", "w", "r", "a", "p", "p", "e", "r", " ", ".", "w", "p", "-", "d", "u", "o", "t", "o", "n", "e", "-", "2", "a", ",", ".", "e", "d", "i", "t", "o", "r", "-", "s", "t", "y", "l", "e", "s", "-", "w", "r", "a", "p", "p", "e", "r", " ", ".", "w", "p", "-", "d", "u", "o", "t", "o", "n", "e", "-", "2", "b">>

IdInputs == SeqsUpTo(Chars, MaxStrLen) \cup {ExampleId1, ExampleId2}
SelectorInputs == SeqsUpTo(Chars, MaxStrLen) \cup {ExampleSelectors1, ExampleSelectors2}

InitSelectors ==
    /\ id \in IdInputs
    /\ duotoneSupportSelectors \in SelectorInputs
    /\ selectorsScoped = <<>>
    /\ selectorsGroup = <<>>
    /\ selPc = "start"
    /\ ResolverIdle
    /\ EditorIdle

ComputeSelectors ==
    /\ selPc = "start"
    /\ selectorsScoped' = ScopedSelectors(id, duotoneSupportSelectors)
    /\ selectorsGroup' = Join(ScopedSelectors(id, duotoneSupportSelectors))
    /\ selPc' = "done"
    /\ UNCHANGED <<id, duotoneSupportSelectors, resolverVars, editorVars>>

NextSelectors == ComputeSelectors

SpecSelectors == InitSelectors /\ [][NextSelectors]_vars

----------------------------------------------------------------------------
(* Spec: a block with duotone support in the editor *)

\* the presets the settings draw from: one slug twice with different colors,
\* and a preset whose only color starts the first one's list
SettingsPresets ==
    {Preset("s1", Arr(<<"c0", "c1">>)),
     Preset("s1", Arr(<<"c1", "c0">>)),
     Preset("s2", Arr(<<"c0">>))}

\* one origin of color.duotone: unset, or a list of presets
TierSettings ==
    {PaletteOf(q) : q \in SeqsUpTo(SettingsPresets, MaxTier)} \cup {NullishPalette}

\* the styles a block may be loaded with
InitStyles ==
    {StyleUndefined,
     [defined |-> TRUE, spacing |-> "8px", color |-> ColorUndefined],
     [defined |-> TRUE, spacing |-> "",
      color |-> [defined |-> TRUE, text |-> "red", hasDuotone |-> FALSE,
                 duotone |-> Undefined]]}
    \cup {[defined |-> TRUE, spacing |-> "8px",
           color |-> [defined |-> TRUE, text |-> "red", hasDuotone |-> TRUE,
                      duotone |-> d]] :
            d \in {Str(PresetReference("s1")), Str(PresetReference("s3")),
                   Arr(<<"c0", "c1">>)}}

\* what the DuotoneControl hands to onChange: colors, 'unset', or undefined
ControlValues ==
    {Undefined, Str("unset")} \cup {Arr(q) : q \in SeqsUpTo(Colors, MaxColors)}

\* the settings of SpecOrigins: every origin drawn, the default one switched
\* on or off
OriginSettings ==
    [custom : TierSettings, theme : TierSettings, default : TierSettings,
     defaultDuotone : BOOLEAN, disableCustomDuotone : {FALSE}]

\* the settings of Spec: the custom and theme origins drawn (the default
\* origin is exercised under SpecOrigins)
EditorSettings ==
    [custom : TierSettings, theme : TierSettings, default : {NullishPalette},
     defaultDuotone : {FALSE}, disableCustomDuotone : BOOLEAN]

Init ==
    /\ settings \in EditorSettings
    /\ style \in InitStyles
    /\ panel = DuotonePanel(style, settings)
    /\ styles = BlockDuotoneStyles(style, settings)
    /\ lastOnChange = Undefined
    /\ setAttributesCalls = <<>>
    /\ ResolverIdle
    /\ SelectorsIdle

\* onChange of the DuotoneControl: one setAttributes call, and the render
\* that follows it
OnChange ==
    /\ panel.rendered
    /\ \E newDuotone \in ControlValues :
          LET newStyle == NewStyle(style, newDuotone, panel.duotonePalette)
          IN  /\ lastOnChange' = newDuotone
              /\ setAttributesCalls' = <<newStyle>>
              /\ style' = newStyle
              /\ panel' = DuotonePanel(newStyle, settings)
              /\ styles' = BlockDuotoneStyles(newStyle, settings)
    /\ UNCHANGED <<settings, resolverVars, selectorVars>>

Next == OnChange

Spec == Init /\ [][Next]_vars

----------------------------------------------------------------------------
(* SpecOrigins: the palette is assembled from the settings, and the reference *)
(* of a slug is resolved against it                                           *)

InitOrigins ==
    /\ settings \in OriginSettings
    /\ rPalette = NullishPalette
    /\ rArg = Undefined
    /\ rFn = "none"
    /\ rResult = Undefined
    /\ style = StyleUndefined
    /\ panel = DuotonePanel(StyleUndefined, settings)
    /\ styles = BlockDuotoneStyles(StyleUndefined, settings)
    /\ lastOnChange = Undefined
    /\ setAttributesCalls = <<>>
    /\ SelectorsIdle

ResolveAgainstOrigins ==
    /\ rFn = "none"
    /\ \E slug \in Slugs \cup {"s3"} :
          /\ rArg' = Str(PresetReference(slug))
          /\ rResult' = getColorsFromDuotonePreset(Str(PresetReference(slug)),
                                                   useMultiOriginPresets(settings))
    /\ rPalette' = useMultiOriginPresets(settings)
    /\ rFn' = "useMultiOriginPresets"
    /\ UNCHANGED <<selectorVars, editorVars>>

NextOrigins == ResolveAgainstOrigins

SpecOrigins == InitOrigins /\ [][NextOrigins]_vars

----------------------------------------------------------------------------
(* Claims about the resolver functions, under SpecResolver *)

CalledGetColors == rFn = "getColorsFromDuotonePreset"
CalledGetPreset == rFn = "getDuotonePresetFromColors"
PaletteIndices == 1..Len(rPalette.items)

\* the colors list pc (a JavaScript value) agrees with the array arr at each of
\* pc's own indices
AgreesOnOwnIndices(pc, arr) ==
    /\ pc.t = "array"
    /\ Len(pc.a) <= Len(arr.a)
    /\ SubSeq(arr.a, 1, Len(pc.a)) = pc.a

\* C1 as stated: for every preset p of the palette, also when two presets
\* share a slug, getColorsFromDuotonePreset on p's reference returns p.colors
C1_EveryPresetResolvesToItsColors ==
    CalledGetColors =>
        \A i \in PaletteIndices :
            rArg = Str(PresetReference(rPalette.items[i].slug))
                => rResult = rPalette.items[i].colors

\* C1 amended: getColorsFromDuotonePreset on p's reference returns the colors
\* of the first preset of the palette that has p's slug, which is p.colors
\* when no preset before p shares p's slug
C1_FirstPresetWithSlugResolves ==
    CalledGetColors =>
        \A i \in PaletteIndices :
            rArg = Str(PresetReference(rPalette.items[i].slug)) =>
                /\ \E j \in 1..i :
                      /\ rPalette.items[j].slug = rPalette.items[i].slug
                      /\ \A k \in 1..(j - 1) :
                            rPalette.items[k].slug # rPalette.items[i].slug
                      /\ rResult = rPalette.items[j].colors
                /\ (\A k \in 1..(i - 1) :
                        rPalette.items[k].slug # rPalette.items[i].slug)
                      => rResult = rPalette.items[i].colors

\* two presets share a slug and differ in colors, and the shared reference
\* was resolved to the first one's colors
C1_Witness ==
    /\ CalledGetColors
    /\ Len(rPalette.items) >= 2
    /\ rPalette.items[1].slug = rPalette.items[2].slug
    /\ rPalette.items[1].colors # rPalette.items[2].colors
    /\ rArg = Str(PresetReference(rPalette.items[2].slug))
    /\ rResult = rPalette.items[1].colors

\* C2 as stated: for every preset p of the palette with two colors [c0, c1],
\* getDuotonePresetFromColors([c0, c1]) returns p's reference whatever
\* presets come before p
C2_EveryTwoColorPresetIsFound ==
    CalledGetPreset =>
        \A i \in PaletteIndices :
            (/\ rPalette.items[i].colors = rArg
             /\ IsArray(rArg)
             /\ Len(rArg.a) = 2)
                => rResult = Str(PresetReference(rPalette.items[i].slug))

\* C2 amended: the call returns the reference of the first preset whose colors
\* agree with [c0, c1] at that preset's own indices; it is p's reference when
\* no preset before p with another slug has such a list (the same list, a
\* shorter prefix, or the empty list)
C2_FirstAgreeingPresetIsFound ==
    CalledGetPreset =>
        \A i \in PaletteIndices :
            (/\ rPalette.items[i].colors = rArg
             /\ IsArray(rArg)
             /\ Len(rArg.a) = 2) =>
                /\ \E j \in 1..i :
                      /\ AgreesOnOwnIndices(rPalette.items[j].colors, rArg)
                      /\ \A k \in 1..(j - 1) :
                            ~AgreesOnOwnIndices(rPalette.items[k].colors, rArg)
                      /\ rResult = Str(PresetReference(rPalette.items[j].slug))
                /\ (\A k \in 1..(i - 1) :
                        \/ rPalette.items[k].slug = rPalette.items[i].slug
                        \/ ~AgreesOnOwnIndices(rPalette.items[k].colors, rArg))
                      => rResult = Str(PresetReference(rPalette.items[i].slug))

\* a two-color preset is second in the palette, behind a preset with another
\* slug and no agreeing colors, and its reference was returned
C2_Witness ==
    /\ CalledGetPreset
    /\ Len(rPalette.items) >= 2
    /\ IsArray(rArg)
    /\ Len(rArg.a) = 2
    /\ rPalette.items[2].colors = rArg
    /\ rPalette.items[1].slug # rPalette.items[2].slug
    /\ rPalette.items[1].colors.t = "array"
    /\ rResult = Str(PresetReference(rPalette.items[2].slug))

\* C6: getDuotonePresetFromColors returns undefined, and raises nothing, when
\* colors is not an array, for every palette; getColorsFromDuotonePreset
\* returns undefined, and raises nothing, when its argument is nullish or
\* empty or is the reference of no slug of the palette
C6_NoMatchIsUndefined ==
    /\ (CalledGetPreset /\ ~IsArray(rArg)) => rResult = Undefined
    /\ (/\ CalledGetColors
        /\ \/ rArg \in {Undefined, Null, Str("")}
           \/ \A i \in PaletteIndices :
                 rArg # Str(PresetReference(rPalette.items[i].slug)))
          => rResult = Undefined
    /\ rResult # TypeError

\* the string "unset" was given as colors with a palette holding a preset
\* whose colors list is empty, and undefined came back
C6_Witness ==
    /\ CalledGetPreset
    /\ rArg = Str("unset")
    /\ \E i \in PaletteIndices : rPalette.items[i].colors = Arr(<<>>)
    /\ rResult = Undefined

\* C8: for an array, getDuotonePresetFromColors returns the reference of the
\* first preset in palette order whose every color equals the element of the
\* array at the same index (extra trailing elements of the array are not
\* looked at, an empty colors list agrees with every array, a preset with no
\* colors list agrees with none), and undefined when there is none
C8_FirstPresetAgreeingOnItsOwnIndices ==
    (CalledGetPreset /\ IsArray(rArg)) =>
        LET agreeing == {i \in PaletteIndices :
                            AgreesOnOwnIndices(rPalette.items[i].colors, rArg)}
        IN  /\ agreeing = {} => rResult = Undefined
            /\ agreeing # {} =>
                  \E i \in agreeing :
                      /\ \A j \in agreeing : i <= j
                      /\ rResult = Str(PresetReference(rPalette.items[i].slug))
            /\ \A i \in PaletteIndices :
                  rPalette.items[i].colors = Arr(<<>>) => i \in agreeing
            /\ \A i \in PaletteIndices :
                  rPalette.items[i].colors = Undefined => i \notin agreeing

\* the array is longer than the non-empty colors list of the preset whose
\* reference was returned, and a preset with no colors list came before it
C8_Witness ==
    /\ CalledGetPreset
    /\ IsArray(rArg)
    /\ Len(rPalette.items) >= 2
    /\ rPalette.items[1].colors = Undefined
    /\ rPalette.items[2].colors.t = "array"
    /\ Len(rPalette.items[2].colors.a) >= 1
    /\ Len(rArg.a) > Len(rPalette.items[2].colors.a)
    /\ rResult = Str(PresetReference(rPalette.items[2].slug))

----------------------------------------------------------------------------
(* Claims about the scoped selectors, under SpecSelectors *)

ScopeParts == ScopesOf(id)
SelectorParts == Split(duotoneSupportSelectors)

\* the k-th ( scope, selector ) pair, scope-major and selector-minor
ScopeOfPair(k) == ScopeParts[((k - 1) \div Len(SelectorParts)) + 1]
SelectorOfPair(k) == SelectorParts[((k - 1) % Len(SelectorParts)) + 1]
PairCount == Len(ScopeParts) * Len(SelectorParts)

\* what the concatenation rule of the specification emits for one pair
RuleForPair(outer, inner) ==
    LET o == Trim(outer)
        n == Trim(inner)
    IN  IF o # <<>> /\ n # <<>> THEN <<Wrapper \o o \o n>>
        ELSE IF o # <<>> THEN <<Wrapper \o o>>
        ELSE IF n # <<>> THEN <<Wrapper \o n>>
        ELSE <<>>

RECURSIVE RuleFromPair(_)
RuleFromPair(k) ==
    IF k > PairCount THEN <<>>
    ELSE RuleForPair(ScopeOfPair(k), SelectorOfPair(k)) \o RuleFromPair(k + 1)

\* C3 as stated: each pair emits the wrapper prefix followed by both trimmed
\* parts when both are non-empty, by the one non-empty part when exactly one
\* is, and nothing when both are empty
C3_PairsFollowConcatenationRule ==
    selPc = "done" => selectorsScoped = RuleFromPair(1)

\* C4: when every scope and every selector is non-empty (after trimming),
\* the selector group is the comma-join of exactly m*n strings, the k-th being
\* the wrapper prefix, then the scope, then the selector of the k-th pair in
\* scope-major order; the two examples of the specification come out as written
C4_ScopeMajorProduct ==
    selPc = "done" =>
        /\ ((\A i \in 1..Len(ScopeParts) : Trim(ScopeParts[i]) # <<>>)
            /\ (\A j \in 1..Len(SelectorParts) : Trim(SelectorParts[j]) # <<>>))
              => /\ Len(selectorsScoped) = PairCount
                 /\ \A k \in 1..PairCount :
                       selectorsScoped[k] =
                           Wrapper \o Trim(ScopeOfPair(k)) \o Trim(SelectorOfPair(k))
                 /\ Split(selectorsGroup) = selectorsScoped
        /\ (id = ExampleId1 /\ duotoneSupportSelectors = ExampleSelectors1)
              => selectorsGroup = ExampleGroup1
        /\ (id = ExampleId2 /\ duotoneSupportSelectors = ExampleSelectors2)
              => selectorsGroup = ExampleGroup2

\* the two-scope, two-selector example was computed and gave four selectors
C4_Witness ==
    /\ selPc = "done"
    /\ id = ExampleId2
    /\ duotoneSupportSelectors = ExampleSelectors2
    /\ Len(selectorsScoped) = 4
    /\ selectorsGroup = ExampleGroup2

----------------------------------------------------------------------------
(* Claims about the palette's origins, under SpecOrigins *)

CustomItems == OrEmptyArray(settings.custom).items
ThemeItems == OrEmptyArray(settings.theme).items
DefaultItems == IF settings.defaultDuotone THEN OrEmptyArray(settings.default).items ELSE <<>>

HasSlug(items, slug) == \E i \in 1..Len(items) : items[i].slug = slug

\* the colors of the first preset of items that has the slug
FirstColorsOf(items, slug) ==
    items[CHOOSE i \in 1..Len(items) :
              /\ items[i].slug = slug
              /\ \A j \in 1..(i - 1) : items[j].slug # slug].colors

\* C7: the palette is the custom presets, then the theme presets, then the
\* default presets (left out when the default setting is off); a reference
\* whose slug is in several origins resolves to the custom preset's colors
\* over the theme one's, and to the theme one's over the default one's
C7_CustomThenThemeThenDefault ==
    rFn = "useMultiOriginPresets" =>
        /\ Len(rPalette.items) = Len(CustomItems) + Len(ThemeItems) + Len(DefaultItems)
        /\ \A i \in 1..Len(CustomItems) : rPalette.items[i] = CustomItems[i]
        /\ \A i \in 1..Len(ThemeItems) :
              rPalette.items[Len(CustomItems) + i] = ThemeItems[i]
        /\ \A i \in 1..Len(DefaultItems) :
              rPalette.items[Len(CustomItems) + Len(ThemeItems) + i] = DefaultItems[i]
        /\ \A slug \in Slugs :
              rArg = Str(PresetReference(slug)) =>
                  rResult =
                      IF HasSlug(CustomItems, slug) THEN FirstColorsOf(CustomItems, slug)
                      ELSE IF HasSlug(ThemeItems, slug) THEN FirstColorsOf(ThemeItems, slug)
                      ELSE IF HasSlug(DefaultItems, slug) THEN FirstColorsOf(DefaultItems, slug)
                      ELSE Undefined

\* one slug is in the custom, the theme and the default origin with colors
\* that differ between custom and theme, and its reference was resolved
C7_Witness ==
    /\ rFn = "useMultiOriginPresets"
    /\ settings.defaultDuotone
    /\ \E slug \in Slugs :
          /\ HasSlug(CustomItems, slug)
          /\ HasSlug(ThemeItems, slug)
          /\ HasSlug(DefaultItems, slug)
          /\ FirstColorsOf(CustomItems, slug) # FirstColorsOf(ThemeItems, slug)
          /\ rArg = Str(PresetReference(slug))
          /\ rResult = FirstColorsOf(CustomItems, slug)

----------------------------------------------------------------------------
(* Claims about the control and the styles of a block, under Spec *)

\* C5 as stated: while the block's duotone style is 'unset', neither
\* DuotonePanel nor BlockDuotoneStyles calls getColorsFromDuotonePreset with
\* it, and it reaches InlineDuotone unchanged
C5_UnsetNeverResolved ==
    DuotoneStyleOf(style) = Str("unset") =>
        /\ Str("unset") \notin panel.resolveCalls
        /\ Str("unset") \notin styles.resolveCalls
        /\ styles.rendered
        /\ styles.colors = Str("unset")
        /\ styles.inline = "unset"

\* C9: each onChange( newDuotone ) calls setAttributes once, with a style
\* whose color.duotone is the reference getDuotonePresetFromColors returns
\* for newDuotone when there is one and newDuotone otherwise, and whose other
\* keys, and the other keys of whose color, are those of the previous style
C9_OnChangeWritesOnlyDuotone ==
    [][LET newDuotone == lastOnChange'
           maybePreset == getDuotonePresetFromColors(newDuotone, panel.duotonePalette)
       IN  /\ Len(setAttributesCalls') = 1
           /\ setAttributesCalls'[1] = style'
           /\ style'.defined /\ style'.color.defined /\ style'.color.hasDuotone
           /\ style'.color.duotone =
                 (IF maybePreset # Undefined THEN maybePreset ELSE newDuotone)
           /\ (newDuotone \in {Undefined, Str("unset")}
                 => style'.color.duotone = newDuotone)
           /\ style'.spacing = (IF style.defined THEN style.spacing ELSE "")
           /\ style'.color.text =
                 (IF style.defined /\ style.color.defined THEN style.color.text ELSE "")
      ]_vars

\* colors that are a preset's were given to onChange for a style with a
\* sibling key at each level; the reference was stored and the siblings kept
C9_Witness ==
    /\ Len(setAttributesCalls) = 1
    /\ IsArray(lastOnChange)
    /\ style.spacing = "8px"
    /\ style.color.text = "red"
    /\ style.color.duotone.t = "string"
    /\ style.color.duotone =
          getDuotonePresetFromColors(lastOnChange, panel.duotonePalette)

\* C10 as stated: after onChange( c ) with c an array of colors, the value
\* DuotonePanel passes to the control and the colors BlockDuotoneStyles passes
\* to the filter both equal c
C10_ColorsRoundTrip ==
    (setAttributesCalls # <<>> /\ IsArray(lastOnChange)) =>
        /\ panel.rendered /\ panel.value = lastOnChange
        /\ styles.rendered /\ styles.colors = lastOnChange

====
